---------------------------- MODULE Spec2Model ----------------------------
(***************************************************************************)
(* Model of app.py (autoleveler-visualizer): the XYZ parser, the /data     *)
(* handler (parse, optional outlier filter, grid) and the /compare handler *)
(* (parse two files, intersect coordinates, diff, optional filter, grid,   *)
(* statistics).                                                            *)
(*                                                                         *)
(* Text is modelled as it is in the file: a file is a sequence of lines, a *)
(* line a sequence of characters.  Python floats are modelled as binary    *)
(* floating point numbers with round-half-even, as IEEE 754 doubles are,   *)
(* with a significand of MantBits bits (a double has 53) and gradual       *)
(* underflow below 2^(MantBits - FracBits).  A float is held as the        *)
(* integer count of units of 2^-FracBits, so integer order and equality    *)
(* are float order and equality.  The character alphabet holds digits,     *)
(* sign, dot, letters and blanks: exponent forms, "inf", "nan" and         *)
(* underscores, which float() also accepts, are outside the alphabet.      *)
(***************************************************************************)
EXTENDS Integers, Sequences, FiniteSets, TLC

VARIABLES fs, request, response, locals

vars == <<fs, request, response, locals>>

(* ------------------------------ bounds --------------------------------- *)

\* Longest file (in lines) of a /data request.
MaxLines == 3

\* Significand width of the modelled float format.
MantBits == 5

\* Floats are multiples of 2^-FracBits.
FracBits == 10

(* ------------------------- float arithmetic ---------------------------- *)

RECURSIVE Pow2(_)
Pow2(n) == IF n <= 0 THEN 1 ELSE 2 * Pow2(n - 1)

RECURSIVE Pow10(_)
Pow10(n) == IF n <= 0 THEN 1 ELSE 10 * Pow10(n - 1)

RECURSIVE BitLen(_)
BitLen(n) == IF n <= 0 THEN 0 ELSE 1 + BitLen(n \div 2)

Max2(a, b) == IF a >= b THEN a ELSE b

\* Spacing of the floats around a magnitude of n units.
Ulp(n) == Pow2(Max2(0, BitLen(n) - MantBits))

\* The multiple of st nearest to a/den (a >= 0, den > 0), ties to the even
\* multiple.
RoundTo(a, den, st) ==
    LET fl  == a \div (den * st)
        rem == a % (den * st)
    IN  IF (2 * rem > den * st) \/ (2 * rem = den * st /\ fl % 2 = 1)
        THEN (fl + 1) * st
        ELSE fl * st

\* The float nearest to the rational num/den units (den > 0), ties to even.
Round(num, den) ==
    IF num < 0 THEN -RoundTo(-num, den, Ulp((-num) \div den))
    ELSE RoundTo(num, den, Ulp(num \div den))

\* a + b, a - b on floats.
float_add(a, b) == Round(a + b, 1)

float_sub(a, b) == Round(a - b, 1)

\* a / n for a float a and a length n.
float_div(a, n) == Round(a, n)

\* a ** 2.
float_sq(a) == Round(a * a, Pow2(FracBits))

RECURSIVE ISqrtRec(_, _, _)
ISqrtRec(x, lo, hi) ==
    IF lo >= hi THEN lo
    ELSE LET m == (lo + hi + 1) \div 2
         IN  IF m * m <= x THEN ISqrtRec(x, m, hi) ELSE ISqrtRec(x, lo, m - 1)

\* Largest integer whose square is at most x.
ISqrt(x) == ISqrtRec(x, 0, 46340)

\* Of the neighbouring floats lo and lo + st, the one nearest to the square
\* root of X, ties to even.
SqrtBetween(X, lo, st) ==
    IF lo * lo = X THEN lo
    ELSE IF 4 * X > (2 * lo + st) * (2 * lo + st) THEN lo + st
    ELSE IF 4 * X = (2 * lo + st) * (2 * lo + st) /\ (lo \div st) % 2 = 1 THEN lo + st
    ELSE lo

\* The float nearest to r2, the square root of X, given r = floor(r2).
SqrtNear(X, r, st) == SqrtBetween(X, (r \div st) * st, st)

SqrtOf(X, r) == SqrtNear(X, r, Ulp(r))

\* a ** 0.5 for a float a >= 0: the float nearest to the square root.
float_sqrt(a) == SqrtOf(a * Pow2(FracBits), ISqrt(a * Pow2(FracBits)))

float_abs(a) == IF a < 0 THEN -a ELSE a

\* sum(values): left to right, rounding after every addition, from 0, as
\* CPython does up to 3.11 (from 3.12 on sum() carries a correction term).
RECURSIVE float_sum(_)
float_sum(values) ==
    IF values = <<>> THEN 0
    ELSE float_add(float_sum(SubSeq(values, 1, Len(values) - 1)),
                   values[Len(values)])

(* ------------------------------- text ---------------------------------- *)

Digits == <<"0", "1", "2", "3", "4", "5", "6", "7", "8", "9">>

IsDigit(c) == \E i \in 1..Len(Digits) : Digits[i] = c

DigitVal(c) == (CHOOSE i \in 1..Len(Digits) : Digits[i] = c) - 1

IsSpace(c) == c \in {" ", "\t"}

\* str.strip(): without its leading and trailing whitespace.
RECURSIVE strip(_)
strip(line) ==
    IF line = <<>> THEN <<>>
    ELSE IF IsSpace(Head(line)) THEN strip(Tail(line))
    ELSE IF IsSpace(line[Len(line)]) THEN strip(SubSeq(line, 1, Len(line) - 1))
    ELSE line

\* str.split(): the maximal runs of non-whitespace characters, in order.
RECURSIVE SplitRec(_, _, _)
SplitRec(line, cur, out) ==
    IF line = <<>> THEN (IF cur = <<>> THEN out ELSE Append(out, cur))
    ELSE IF IsSpace(Head(line))
         THEN SplitRec(Tail(line), <<>>, IF cur = <<>> THEN out ELSE Append(out, cur))
         ELSE SplitRec(Tail(line), Append(cur, Head(line)), out)

split(line) == SplitRec(line, <<>>, <<>>)

RECURSIVE DigitsValue(_)
DigitsValue(ds) ==
    IF ds = <<>> THEN 0
    ELSE 10 * DigitsValue(SubSeq(ds, 1, Len(ds) - 1)) + DigitVal(ds[Len(ds)])

\* The token without its sign character.
Unsigned(tok) == IF tok # <<>> /\ tok[1] \in {"+", "-"} THEN Tail(tok) ELSE tok

\* float(tok) succeeds: an optional sign, then digits with at most one dot
\* and at least one digit.  Anything else raises ValueError.
FloatOk(tok) ==
    LET body == Unsigned(tok)
    IN  /\ \A i \in 1..Len(body) : IsDigit(body[i]) \/ body[i] = "."
        /\ Cardinality({i \in 1..Len(body) : body[i] = "."}) <= 1
        /\ \E i \in 1..Len(body) : IsDigit(body[i])

\* float(tok) for a token float() accepts: the float nearest to the decimal.
FloatOf(tok) ==
    LET body == Unsigned(tok)
        dots == {i \in 1..Len(body) : body[i] = "."}
        frac == IF dots = {} THEN 0 ELSE Len(body) - (CHOOSE i \in dots : TRUE)
        mag  == Round(DigitsValue(SelectSeq(body, IsDigit)) * Pow2(FracBits), Pow10(frac))
    IN  IF tok[1] = "-" THEN -mag ELSE mag

\* ParseLine with "len(parts) == 3" for "len(parts) >= 3".
ParseLineExactlyThree(raw) ==
    IF Len(split(strip(raw))) = 3
       /\ \A n \in 1..3 : FloatOk(split(strip(raw))[n])
    THEN << [x |-> FloatOf(split(strip(raw))[1]), y |-> FloatOf(split(strip(raw))[2]),
             z |-> FloatOf(split(strip(raw))[3])] >>
    ELSE <<>>

\* One line of the loop of parse_xyz_file: the point it appends, if any.
ParseLine(raw) ==
    LET line  == strip(raw)
        parts == split(line)
    IN  IF line = <<>> THEN <<>>
        ELSE IF Len(parts) >= 3
             THEN IF FloatOk(parts[1]) /\ FloatOk(parts[2]) /\ FloatOk(parts[3])
                  THEN << [x |-> FloatOf(parts[1]), y |-> FloatOf(parts[2]),
                           z |-> FloatOf(parts[3])] >>
                  ELSE <<>>
             ELSE <<>>

\* parse_xyz_file: the points of the lines, in line order.
RECURSIVE parse_xyz_file(_)
parse_xyz_file(file) ==
    IF file = <<>> THEN <<>>
    ELSE parse_xyz_file(SubSeq(file, 1, Len(file) - 1)) \o ParseLine(file[Len(file)])

(* ---------------------------- outlier filter --------------------------- *)

\* [p['z'] for p in points]
ZValues(points) == [i \in 1..Len(points) |-> points[i].z]

\* mean = sum(z_values) / len(z_values)
Mean(values) == float_div(float_sum(values), Len(values))

\* sum((z - mean) ** 2 for z in z_values) / len(z_values)
VarianceAbout(values, mean) ==
    float_div(float_sum([i \in 1..Len(values) |->
                            float_sq(float_sub(values[i], mean))]),
              Len(values))

\* variance = sum((z - mean) ** 2 for z in z_values) / len(z_values)
Variance(values) == VarianceAbout(values, Mean(values))

\* std_dev = variance ** 0.5
StdDev(values) == float_sqrt(Variance(values))

\* lower_bound = mean - std_dev
LowerBound(values) == float_sub(Mean(values), StdDev(values))

\* upper_bound = mean + std_dev
UpperBound(values) == float_add(Mean(values), StdDev(values))

\* [p for p in points if lower_bound <= p['z'] <= upper_bound]
Within(points, lower_bound, upper_bound) ==
    LET Keep(p) == lower_bound <= p.z /\ p.z <= upper_bound
    IN  SelectSeq(points, Keep)

\* The list comprehension that keeps the items inside the band, in order.
FilteredPoints(points) ==
    Within(points, LowerBound(ZValues(points)), UpperBound(ZValues(points)))

\* The block "if filter_outliers and len(points) > 1": the items that go on.
FilterOutliers(points, filter_outliers) ==
    IF filter_outliers /\ Len(points) > 1 THEN FilteredPoints(points) ELSE points

(* ------------------------------- grid ---------------------------------- *)

\* JSON null and a JSON number, as cells of the grid.
None == <<>>

Some(v) == <<v>>

\* sorted(S) for a set of floats.
RECURSIVE sorted(_)
SortedFrom(m, S) == <<m>> \o sorted(S \ {m})

sorted(S) ==
    IF S = {} THEN <<>>
    ELSE SortedFrom(CHOOSE a \in S : \A b \in S : a <= b, S)

\* map[(p['x'], p['y'])] = p['z']: the entry of the key is set or replaced.
Put(map, p) ==
    [k \in DOMAIN map \cup {<<p.x, p.y>>} |->
        IF k = <<p.x, p.y>> THEN p.z ELSE map[k]]

\* PointMap in which the first point at a coordinate is kept.
RECURSIVE PointMapFirst(_)
PointMapFirst(points) ==
    IF points = <<>> THEN <<>>
    ELSE Put(PointMapFirst(Tail(points)), Head(points))

\* {(p['x'], p['y']): p['z'] for p in points}: a later point overwrites.
RECURSIVE PointMap(_)
PointMap(points) ==
    IF points = <<>> THEN <<>>
    ELSE Put(PointMap(SubSeq(points, 1, Len(points) - 1)), points[Len(points)])

\* Get with a default of 0 for None.
GetOrZero(map, key) == IF key \in DOMAIN map THEN <<map[key]>> ELSE <<0>>

\* dict.get(key, None)
Get(map, key) == IF key \in DOMAIN map THEN Some(map[key]) ELSE None

XValues(points) == sorted({points[i].x : i \in 1..Len(points)})

YValues(points) == sorted({points[i].y : i \in 1..Len(points)})

\* The nested loops that fill z_grid: one row per y, one cell per x.
Rows(x_values, y_values, point_map) ==
    [i \in 1..Len(y_values) |->
        [j \in 1..Len(x_values) |-> Get(point_map, <<x_values[j], y_values[i]>>)]]

\* z_grid of the points that go into the grid.
ZGrid(points) == Rows(XValues(points), YValues(points), PointMap(points))

(* ------------------------------ requests ------------------------------- *)

Error(status, message) == [status |-> status, error |-> message]

NoResponse == [status |-> 0]

\* The handler's local variables, as they stand when it returns: the parsed
\* points (points1, points2), the common coordinates, the items before the
\* filter block (before) and after it (after).
NoLocals == [points1 |-> <<>>, points2 |-> <<>>, common_coords |-> {},
             before |-> <<>>, after |-> <<>>]

\* filename.endswith('.xyz')
EndsWithXyz(filename) == filename.ext = ".xyz"

\* get_file_path(filename) is not None: the store holds the file.
get_file_path(filename) == filename \in DOMAIN fs

\* The end of get_data: the check for no points, the grid, the answer;
\* `parsed` are the points before the filter block, `points` those after.
DataAnswer(parsed, points) ==
    IF points = <<>>
    THEN Error(400, "No points remaining after filtering")
    ELSE [status |-> 200,
          x      |-> XValues(points),
          y      |-> YValues(points),
          z      |-> ZGrid(points),
          points |-> points,
          stats  |-> [outliers_removed    |-> Len(parsed) - Len(points),
                      total_before_filter |-> Len(parsed)]]

\* The points without those that a later point at the same coordinate
\* replaces.
RECURSIVE LastPerCoordinate(_)
LastPerCoordinate(points) ==
    IF points = <<>> THEN <<>>
    ELSE LET last == points[Len(points)]
             Other(q) == <<q.x, q.y>> # <<last.x, last.y>>
         IN  Append(SelectSeq(LastPerCoordinate(SubSeq(points, 1, Len(points) - 1)), Other),
                    last)

\* DataResponse with the coordinates deduplicated before the filter.
DataResponseDedupFirst(parsed, filter_outliers) ==
    DataAnswer(parsed, FilterOutliers(LastPerCoordinate(parsed), filter_outliers))

\* The body of get_data from the parsed points on.
DataResponse(parsed, filter_outliers) ==
    DataAnswer(parsed, FilterOutliers(parsed, filter_outliers))

\* The local variables of get_data when it returns.
DataLocals(parsed, filter_outliers) ==
    [points1       |-> parsed,
     points2       |-> <<>>,
     common_coords |-> {},
     before        |-> parsed,
     after         |-> FilterOutliers(parsed, filter_outliers)]

\* GET /data
get_data ==
    /\ response = NoResponse
    /\ request.route = "/data"
    /\ IF ~EndsWithXyz(request.file)
       THEN response' = Error(400, "Invalid file type") /\ locals' = locals
       ELSE IF ~get_file_path(request.file)
       THEN response' = Error(404, "File not found") /\ locals' = locals
       ELSE /\ response' = DataResponse(parse_xyz_file(fs[request.file]),
                                        request.filter_outliers)
            /\ locals' = DataLocals(parse_xyz_file(fs[request.file]),
                                    request.filter_outliers)
    /\ UNCHANGED <<fs, request>>

\* The orders in which "for coord in common_coords" may visit a set: the
\* iteration order of a Python set is that of its hash table.
RECURSIVE IterationOrders(_)
IterationOrders(S) ==
    IF S = {} THEN {<<>>}
    ELSE UNION {{<<c>> \o o : o \in IterationOrders(S \ {c})} : c \in S}

\* common_coords = set(map1.keys()) & set(map2.keys())
CommonCoords(points1, points2) ==
    DOMAIN PointMap(points1) \cap DOMAIN PointMap(points2)

\* differences.append({'x': coord[0], 'y': coord[1], 'z': map1[coord] - map2[coord]})
\* for the coordinates in `order`.
DiffList(map1, map2, order) ==
    [i \in 1..Len(order) |->
        [x |-> order[i][1], y |-> order[i][2],
         z |-> float_sub(map1[order[i]], map2[order[i]])]]

\* Differences with the operands of the subtraction exchanged.
DifferencesReversed(points1, points2, order) ==
    DiffList(PointMap(points2), PointMap(points1), order)

\* The loop "for coord in common_coords" visiting the set in `order`.
Differences(points1, points2, order) ==
    DiffList(PointMap(points1), PointMap(points2), order)

\* min(values), max(values)
MinOf(values) ==
    CHOOSE a \in {values[i] : i \in 1..Len(values)} :
        \A i \in 1..Len(values) : a <= values[i]

MaxOf(values) ==
    CHOOSE a \in {values[i] : i \in 1..Len(values)} :
        \A i \in 1..Len(values) : a >= values[i]

\* CompareStats with matched_points counted after the filter.
CompareStatsAfterFilter(points1, points2, all, differences) ==
    [min       |-> MinOf(ZValues(differences)),
     max       |-> MaxOf(ZValues(differences)),
     mean      |-> float_div(float_sum(ZValues(differences)), Len(differences)),
     mean_abs  |-> float_div(float_sum([i \in 1..Len(differences) |->
                                           float_abs(differences[i].z)]), Len(differences)),
     rms       |-> float_sqrt(float_div(float_sum([i \in 1..Len(differences) |->
                                           float_sq(differences[i].z)]), Len(differences))),
     total_points        |-> Len(differences),
     matched_points      |-> Len(differences),
     file1_points        |-> Len(points1),
     file2_points        |-> Len(points2),
     outliers_removed    |-> Len(all) - Len(differences),
     total_before_filter |-> Len(all)]

\* The statistics of compare_files over the surviving differences.
CompareStats(points1, points2, all, differences) ==
    LET diff_values == ZValues(differences)
        n           == Len(differences)
    IN  [min       |-> MinOf(diff_values),
         max       |-> MaxOf(diff_values),
         mean      |-> float_div(float_sum(diff_values), n),
         mean_abs  |-> float_div(float_sum([i \in 1..n |-> float_abs(differences[i].z)]), n),
         rms       |-> float_sqrt(float_div(
                           float_sum([i \in 1..n |-> float_sq(differences[i].z)]), n)),
         total_points        |-> Len(differences),
         matched_points      |-> Cardinality(CommonCoords(points1, points2)),
         file1_points        |-> Len(points1),
         file2_points        |-> Len(points2),
         outliers_removed    |-> Len(all) - Len(differences),
         total_before_filter |-> Len(all)]

\* The end of compare_files: the check for no differences, the grid, the
\* statistics, the answer; `all` are the differences before the filter
\* block, `differences` those after.
CompareAnswer(points1, points2, all, differences) ==
    IF differences = <<>>
    THEN Error(400, "No points remaining after filtering")
    ELSE [status |-> 200,
          x      |-> XValues(differences),
          y      |-> YValues(differences),
          z      |-> ZGrid(differences),
          points |-> differences,
          stats  |-> CompareStats(points1, points2, all, differences)]

\* The differences after the filter block.
Filtered(all, filter_outliers) == FilterOutliers(all, filter_outliers)

\* CompareResponse with the check for no common coordinate after the filter
\* block and the check for no differences.
CompareResponseFilterFirst(points1, points2, order, filter_outliers) ==
    IF Filtered(Differences(points1, points2, order), filter_outliers) = <<>>
    THEN Error(400, "No points remaining after filtering")
    ELSE IF CommonCoords(points1, points2) = {}
    THEN Error(400, "No matching coordinates between files")
    ELSE CompareAnswer(points1, points2,
                       Differences(points1, points2, order),
                       Filtered(Differences(points1, points2, order), filter_outliers))

\* The body of compare_files from the parsed points on, with the common
\* coordinates visited in `order`.
CompareResponse(points1, points2, order, filter_outliers) ==
    IF CommonCoords(points1, points2) = {}
    THEN Error(400, "No matching coordinates between files")
    ELSE CompareAnswer(points1, points2,
                       Differences(points1, points2, order),
                       Filtered(Differences(points1, points2, order), filter_outliers))

\* The local variables of compare_files when it returns.
CompareLocals(points1, points2, order, all, filter_outliers) ==
    [points1       |-> points1,
     points2       |-> points2,
     common_coords |-> {order[i] : i \in 1..Len(order)},
     before        |-> all,
     after         |-> FilterOutliers(all, filter_outliers)]

\* The answer and the locals of compare_files for the parsed files.
Compared(points1, points2) ==
    \E order \in IterationOrders(CommonCoords(points1, points2)) :
        /\ response' = CompareResponse(points1, points2, order, request.filter_outliers)
        /\ locals' = CompareLocals(points1, points2, order,
                                   Differences(points1, points2, order),
                                   request.filter_outliers)

\* GET /compare
compare_files ==
    /\ response = NoResponse
    /\ request.route = "/compare"
    /\ IF ~EndsWithXyz(request.file1) \/ ~EndsWithXyz(request.file2)
       THEN response' = Error(400, "Invalid file type") /\ locals' = locals
       ELSE IF ~get_file_path(request.file1) \/ ~get_file_path(request.file2)
       THEN response' = Error(404, "File not found") /\ locals' = locals
       ELSE Compared(parse_xyz_file(fs[request.file1]),
                     parse_xyz_file(fs[request.file2]))
    /\ UNCHANGED <<fs, request>>

(* ------------------------------ inputs --------------------------------- *)

\* File names of a request.
Mesh == [base |-> "mesh", ext |-> ".xyz"]

Ref == [base |-> "ref", ext |-> ".xyz"]

Gone == [base |-> "gone", ext |-> ".xyz"]

Notes == [base |-> "notes", ext |-> ".txt"]

\* Tokens of a line, as the characters of the file.
T0 == <<"0">>

T1 == <<"1">>

Z03 == <<"0", ".", "3">>

Z24 == <<"2", ".", "4">>

\* The line "x y z".
Line(x, y, z) == x \o <<" ">> \o y \o <<" ">> \o z

\* The probe positions of a scan, in scan order.
Coords == << <<T0, T0>>, <<T1, T0>>, <<T0, T1>>, <<T1, T1>> >>

PointLines(zs) == {Line(Coords[i][1], Coords[i][2], z) : i \in 1..Len(Coords), z \in zs}

\* Lines that yield no point: blank, two tokens, a token that is no number.
BadLines == { <<" ">>, T0 \o <<" ">> \o T1, Line(T0, <<"x">>, Z24) }

\* The files of a /data request: up to MaxLines lines, good or bad.
DataLines == PointLines({Z03, Z24}) \cup BadLines

DataFiles == UNION {[1..n -> DataLines] : n \in 0..MaxLines}

\* A scan lists each probed position once, in scan order; a position may
\* be left out.
RECURSIVE Scans(_, _)
Scans(n, zs) ==
    IF n = 0 THEN {<<>>}
    ELSE LET prev == Scans(n - 1, zs)
         IN  prev \cup {Append(f, Line(Coords[n][1], Coords[n][2], z)) : f \in prev, z \in zs}

\* A scan, possibly followed by one position probed again.
Reprobed(scans, again) == scans \cup {Append(f, l) : f \in scans, l \in again}

CompareFiles1 ==
    Reprobed(Scans(Len(Coords), {Z03, Z24}), {Line(T0, T0, Z03), Line(T0, T0, Z24)})

\* A scan that stopped after n positions.
RECURSIVE Prefix(_, _)
Prefix(n, z) ==
    IF n = 0 THEN <<>>
    ELSE Append(Prefix(n - 1, z), Line(Coords[n][1], Coords[n][2], z))

CompareFiles2 ==
    Reprobed({Prefix(n, T0) : n \in 0..Len(Coords)}, {Line(T0, T0, Z03)})

InitData ==
    /\ fs \in {[n \in {Mesh} |-> f] : f \in DataFiles}
    /\ request \in {[route |-> "/data", file |-> Mesh, filter_outliers |-> b] :
                       b \in BOOLEAN}

InitCompare ==
    /\ fs \in {[n \in {Mesh, Ref} |-> IF n = Mesh THEN f1 ELSE f2] :
                  f1 \in CompareFiles1, f2 \in CompareFiles2}
    /\ request \in {[route |-> "/compare", file1 |-> Mesh, file2 |-> Ref,
                     filter_outliers |-> b] : b \in BOOLEAN}

\* A store with one scan, asked for files it does not hold or may not serve.
InitMissing ==
    /\ fs = [n \in {Mesh} |-> <<Line(T0, T0, Z03)>>]
    /\ request \in
          {[route |-> "/data", file |-> n, filter_outliers |-> FALSE] : n \in {Gone, Notes}}
          \cup {[route |-> "/compare", file1 |-> n1, file2 |-> n2, filter_outliers |-> FALSE] :
                   n1 \in {Mesh, Gone, Notes}, n2 \in {Gone, Notes}}

Init ==
    /\ response = NoResponse
    /\ locals = NoLocals
    /\ InitData \/ InitCompare \/ InitMissing

Next == get_data \/ compare_files

Spec == Init /\ [][Next]_vars

(* --------------------------- parser inputs ----------------------------- *)

\* Raw lines as they stand in a file: blanks and tabs around and between
\* tokens, signs, a bare leading or trailing dot, tokens after the third,
\* and lines that carry no point.
ParseLines ==
    { Line(T0, T1, Z24),
      <<" ", " ">> \o Line(T1, T0, Z03) \o <<" ">>,
      T1 \o <<"\t">> \o T1 \o <<" ", " ">> \o <<"-", "1", ".", "5">>,
      Line(T0, T0, Z03) \o <<" ", "9", " ", "x">>,
      Line(<<"1", ".", "0">>, T0, Z24),
      Line(<<".", "5">>, <<"5", ".">>, <<"+", "1">>),
      <<>>,
      <<" ", "\t">>,
      T0 \o <<" ">> \o T1,
      Line(<<"x">>, T0, Z24),
      Line(T0, <<"1", ".", "2", ".", "3">>, Z24),
      Line(T0, T1, <<"-">>),
      Line(T0, T1, <<"2", ".", "4", "x">>) }

ParseFiles == UNION {[1..n -> ParseLines] : n \in 0..MaxLines}

InitParse ==
    /\ response = NoResponse
    /\ locals = NoLocals
    /\ fs \in {[n \in {Mesh} |-> f] : f \in ParseFiles}
    /\ request = [route |-> "/data", file |-> Mesh, filter_outliers |-> FALSE]

\* The parser alone, on raw text, driven through GET /data.
SpecParse == InitParse /\ [][get_data]_vars

(* ------------------------- vocabulary of the claims -------------------- *)

Answered == response # NoResponse

Succeeded == Answered /\ response.status = 200

\* Both handlers parse the files once the names have been resolved.
Parsed ==
    /\ Answered
    /\ IF request.route = "/data"
       THEN EndsWithXyz(request.file) /\ request.file \in DOMAIN fs
       ELSE /\ EndsWithXyz(request.file1) /\ request.file1 \in DOMAIN fs
            /\ EndsWithXyz(request.file2) /\ request.file2 \in DOMAIN fs

EmptyResult == Error(400, "No points remaining after filtering")

NoOverlap == Error(400, "No matching coordinates between files")

Coord(p) == <<p.x, p.y>>

\* The positions of a list whose point lies at coordinate c.
At(points, c) == {k \in 1..Len(points) : Coord(points[k]) = c}

\* The last position of a list at coordinate c (the list has one).
LastAt(points, c) == CHOOSE k \in At(points, c) : \A m \in At(points, c) : m <= k

\* The cell of the answered grid for coordinate c (c lies on both axes).
CellAt(c) ==
    LET j == CHOOSE j \in 1..Len(response.x) : response.x[j] = c[1]
        i == CHOOSE i \in 1..Len(response.y) : response.y[i] = c[2]
    IN  response.z[i][j]

Ascending(axis) == \A j \in 1..(Len(axis) - 1) : axis[j] < axis[j + 1]

Range(seq) == {seq[i] : i \in 1..Len(seq)}

(* ------------------------------- C1 ------------------------------------ *)

C2_LastWriteWins ==
    /\ Succeeded =>
          \A j \in 1..Len(response.points) :
             LET p == response.points[j]
             IN  (\A k \in (j + 1)..Len(response.points) :
                      Coord(response.points[k]) # Coord(p))
                 => CellAt(Coord(p)) = Some(p.z)
    /\ (Parsed /\ request.route = "/compare") =>
          \A i \in 1..Len(locals.before) :
             LET d == locals.before[i]
                 c == Coord(d)
             IN  d.z = float_sub(locals.points1[LastAt(locals.points1, c)].z,
                                 locals.points2[LastAt(locals.points2, c)].z)

\* A /data answer in which two returned points share a coordinate and differ
\* in z.
C2_Witness ==
    /\ Succeeded
    /\ request.route = "/data"
    /\ \E i \in 1..Len(response.points) : \E j \in (i + 1)..Len(response.points) :
          /\ Coord(response.points[i]) = Coord(response.points[j])
          /\ response.points[i].z # response.points[j].z

(* ------------------------------- C3 ------------------------------------ *)

\* The tokens of a raw line, read off the text: the maximal runs of
\* characters that are not whitespace, as <<first, last>> positions.
TokenSpans(raw) ==
    {s \in (1..Len(raw)) \X (1..Len(raw)) :
        /\ s[1] <= s[2]
        /\ \A k \in s[1]..s[2] : ~IsSpace(raw[k])
        /\ s[1] = 1 \/ IsSpace(raw[s[1] - 1])
        /\ s[2] = Len(raw) \/ IsSpace(raw[s[2] + 1])}

\* The n-th token of a raw line (the line has at least n).
NthToken(raw, n) ==
    LET s == CHOOSE s \in TokenSpans(raw) :
                 Cardinality({t \in TokenSpans(raw) : t[1] < s[1]}) = n - 1
    IN  SubSeq(raw, s[1], s[2])

\* A decimal numeral: an optional sign, m digits, and then nothing or a dot
\* and more digits, with at least one digit in all.
IsNumeral(tok) ==
    \E s \in 0..1 : \E m \in s..Len(tok) :
        /\ s = 1 => (Len(tok) >= 1 /\ tok[1] \in {"+", "-"})
        /\ \A k \in (s + 1)..m : IsDigit(tok[k])
        /\ m = Len(tok) \/ (tok[m + 1] = "." /\ \A k \in (m + 2)..Len(tok) : IsDigit(tok[k]))
        /\ (m - s) + (IF m = Len(tok) THEN 0 ELSE Len(tok) - m - 1) >= 1

\* A line that carries a point: at least three tokens, the first three numerals.
CarriesPoint(raw) ==
    /\ Cardinality(TokenSpans(raw)) >= 3
    /\ \A n \in 1..3 : IsNumeral(NthToken(raw, n))

\* C3: parse_xyz_file returns, in line order, one point for each line that
\* has at least three tokens of which the first three are numerals, built
\* from those three tokens, and nothing for any other line; it always
\* returns, and never more points than the file has lines.
C3_ParserExact ==
    Answered =>
        LET file   == fs[request.file]
            points == locals.points1
            good   == {i \in 1..Len(file) : CarriesPoint(file[i])}
            Nth(n) == CHOOSE i \in good : Cardinality({k \in good : k < i}) = n - 1
        IN  /\ Len(points) = Cardinality(good)
            /\ Len(points) <= Len(file)
            /\ \A n \in 1..Len(points) :
                  points[n] = [x |-> FloatOf(NthToken(file[Nth(n)], 1)),
                               y |-> FloatOf(NthToken(file[Nth(n)], 2)),
                               z |-> FloatOf(NthToken(file[Nth(n)], 3))]
            /\ response.status \in {200, 400}

\* A file of three lines whose middle line has three tokens, one of them no
\* numeral, between a line with blanks around it and a line with five tokens.
C3_Witness ==
    /\ Answered
    /\ Len(fs[request.file]) = 3
    /\ Len(locals.points1) = 2
    /\ fs[request.file][1] # <<>>
    /\ IsSpace(fs[request.file][1][1])
    /\ Cardinality(TokenSpans(fs[request.file][1])) = 3
    /\ Cardinality(TokenSpans(fs[request.file][2])) = 3
    /\ ~CarriesPoint(fs[request.file][2])
    /\ Cardinality(TokenSpans(fs[request.file][3])) = 5

(* ------------------------------- C4 ------------------------------------ *)

RECURSIVE SumInt(_)
SumInt(values) ==
    IF values = <<>> THEN 0 ELSE Head(values) + SumInt(Tail(values))

\* v lies within one population standard deviation of the mean of `values`,
\* bounds included: |v - S/N| <= sqrt(Q/N - (S/N)^2) for the sum S and the
\* sum of squares Q, which is (N*v - S)^2 <= N*Q - S^2.
InBand(values, v) ==
    LET n == Len(values)
        S == SumInt(values)
        Q == SumInt([i \in 1..n |-> values[i] * values[i]])
    IN  (n * v - S) * (n * v - S) <= n * Q - S * S

\* C4: when the filter is requested on two or more items it keeps, in order,
\* exactly the items whose value lies within one population standard
\* deviation of the mean of all the values, bounds included; otherwise it
\* keeps every item.
C4_FilterBand ==
    Parsed =>
        LET all == locals.before
            Keep(p) == InBand(ZValues(all), p.z)
        IN  IF request.filter_outliers /\ Len(all) >= 2
            THEN locals.after = SelectSeq(all, Keep)
            ELSE locals.after = all

(* ------------------------------- C5 ------------------------------------ *)

Coords1 == {Coord(locals.points1[i]) : i \in 1..Len(locals.points1)}

Coords2 == {Coord(locals.points2[i]) : i \in 1..Len(locals.points2)}

\* C5: before the filter, /compare holds exactly one difference for each
\* coordinate that both files have and none for any other coordinate; its z
\* is z1 - z2 for the last z of that coordinate in file 1 and in file 2; with
\* the two files swapped every difference is negated.
C5_DiffExact ==
    (Parsed /\ request.route = "/compare") =>
        LET all     == locals.before
            swapped == Differences(locals.points2, locals.points1,
                                   [i \in 1..Len(all) |-> Coord(all[i])])
        IN  /\ {Coord(all[i]) : i \in 1..Len(all)} = Coords1 \cap Coords2
            /\ Len(all) = Cardinality(Coords1 \cap Coords2)
            /\ \A i \in 1..Len(all) :
                  /\ all[i].z =
                        float_sub(locals.points1[LastAt(locals.points1, Coord(all[i]))].z,
                                  locals.points2[LastAt(locals.points2, Coord(all[i]))].z)
                  /\ Coord(swapped[i]) = Coord(all[i])
                  /\ swapped[i].z = -all[i].z

\* Two files that share two coordinates, each with a coordinate the other
\* lacks, file 1 probing a shared coordinate twice with different z.
C5_Witness ==
    /\ Parsed
    /\ request.route = "/compare"
    /\ Cardinality(Coords1 \cap Coords2) >= 2
    /\ Coords1 \ Coords2 # {}
    /\ Coords2 \ Coords1 # {}
    /\ \E i \in 1..Len(locals.points1) : \E j \in (i + 1)..Len(locals.points1) :
          /\ Coord(locals.points1[i]) = Coord(locals.points1[j])
          /\ Coord(locals.points1[i]) \in Coords2
          /\ locals.points1[i].z # locals.points1[j].z
    /\ \E i \in 1..Len(locals.before) : locals.before[i].z # 0

(* ------------------------------- C6 ------------------------------------ *)

\* C6: /compare answers "No matching coordinates between files" exactly when
\* no point of file 1 lies at the coordinate of a point of file 2, whatever
\* the filter flag and also when a file has no point; that answer carries no
\* grid and no statistics.
C6_NoOverlapIff ==
    (Parsed /\ request.route = "/compare") =>
        /\ response = NoOverlap <=>
              ~ \E i \in 1..Len(locals.points1) : \E j \in 1..Len(locals.points2) :
                    Coord(locals.points1[i]) = Coord(locals.points2[j])
        /\ response = NoOverlap => DOMAIN response = {"status", "error"}

\* Two files with points but no shared coordinate, compared with the filter
\* requested.
C6_Witness ==
    /\ Parsed
    /\ request.route = "/compare"
    /\ request.filter_outliers
    /\ locals.points1 # <<>>
    /\ locals.points2 # <<>>
    /\ response = NoOverlap

(* ------------------------------- C7 ------------------------------------ *)

\* C7: in every successful answer outliers_removed is total_before_filter
\* less the number of returned points, and is at least 0 and less than
\* total_before_filter.  For /data total_before_filter counts the parsed
\* points.  For /compare total_points counts the returned differences,
\* matched_points is the number of shared coordinates and equals
\* total_before_filter, file1_points and file2_points count the parsed points
\* of each file, and matched_points exceeds neither.
C7_CountsConsistent ==
    Succeeded =>
        LET st == response.stats
        IN  /\ st.outliers_removed = st.total_before_filter - Len(response.points)
            /\ 0 <= st.outliers_removed
            /\ st.outliers_removed < st.total_before_filter
            /\ request.route = "/data" =>
                  st.total_before_filter = Len(locals.points1)
            /\ request.route = "/compare" =>
                  /\ st.total_points = Len(response.points)
                  /\ st.matched_points = Cardinality(Coords1 \cap Coords2)
                  /\ st.matched_points = st.total_before_filter
                  /\ st.file1_points = Len(locals.points1)
                  /\ st.file2_points = Len(locals.points2)
                  /\ st.matched_points <= st.file1_points
                  /\ st.matched_points <= st.file2_points

\* A /compare answer with a difference removed, file 1 holding more points
\* than coordinates.
C7_Witness ==
    /\ Succeeded
    /\ request.route = "/compare"
    /\ response.stats.outliers_removed > 0
    /\ Len(locals.points1) > Cardinality(Coords1)

(* ------------------------------- C8 ------------------------------------ *)

\* What C8 compares of an answer: all of an error; of a success the grid,
\* the set of returned differences and the counts.
Outcome(r) ==
    IF r.status # 200 THEN r
    ELSE [status |-> r.status, x |-> r.x, y |-> r.y, z |-> r.z,
          points |-> Range(r.points),
          outliers_removed    |-> r.stats.outliers_removed,
          total_before_filter |-> r.stats.total_before_filter,
          total_points        |-> r.stats.total_points,
          matched_points      |-> r.stats.matched_points,
          file1_points        |-> r.stats.file1_points,
          file2_points        |-> r.stats.file2_points]

\* C8: whatever the order in which /compare visits the common coordinates,
\* the kind of answer, the grid, the set of returned differences,
\* outliers_removed and the counts are the same.
C8_OrderIndependent ==
    (Parsed /\ request.route = "/compare") =>
        \A order \in IterationOrders(locals.common_coords) :
            Outcome(CompareResponse(locals.points1, locals.points2, order,
                                    request.filter_outliers))
                = Outcome(response)

(* ------------------------------- C9 ------------------------------------ *)

\* C9: the filter never empties a non-empty list; so /data answers "No points
\* remaining after filtering" exactly when the file has no point, and
\* /compare never gives that answer.
C9_FilterNeverEmpties ==
    Parsed =>
        /\ locals.before # <<>> => locals.after # <<>>
        /\ request.route = "/data" =>
              (response = EmptyResult <=> locals.points1 = <<>>)
        /\ request.route = "/compare" => response # EmptyResult

(* ------------------------------- C10 ----------------------------------- *)

\* C10: with the filter requested, /data filters all the parsed points,
\* those that share a coordinate included, against the band of all their z
\* values; the cell of a coordinate holds the z of the last point there that
\* survived; every value on an axis is carried by a surviving point, and
\* every row and every column of the grid has a cell that is not null.
C10_FilterBeforeDedup ==
    (Parsed /\ request.route = "/data" /\ request.filter_outliers) =>
        LET parsed  == locals.points1
            Keep(p) == /\ LowerBound(ZValues(parsed)) <= p.z
                       /\ p.z <= UpperBound(ZValues(parsed))
            kept    == IF Len(parsed) > 1 THEN SelectSeq(parsed, Keep) ELSE parsed
        IN  /\ Succeeded <=> kept # <<>>
            /\ Succeeded =>
                  /\ response.points = kept
                  /\ \A k \in 1..Len(kept) :
                        CellAt(Coord(kept[k]))
                            = Some(kept[LastAt(kept, Coord(kept[k]))].z)
                  /\ \A j \in 1..Len(response.x) :
                        /\ \E k \in 1..Len(kept) : kept[k].x = response.x[j]
                        /\ \E i \in 1..Len(response.y) : response.z[i][j] # None
                  /\ \A i \in 1..Len(response.y) :
                        /\ \E k \in 1..Len(kept) : kept[k].y = response.y[i]
                        /\ \E j \in 1..Len(response.x) : response.z[i][j] # None

\* A coordinate probed twice, the later point removed as an outlier, the
\* earlier one kept and shown in the grid.
C10_Witness ==
    /\ Succeeded
    /\ request.route = "/data"
    /\ request.filter_outliers
    /\ \E i \in 1..Len(locals.points1) : \E j \in (i + 1)..Len(locals.points1) :
          /\ Coord(locals.points1[i]) = Coord(locals.points1[j])
          /\ locals.points1[i] \in Range(response.points)
          /\ locals.points1[j] \notin Range(response.points)
          /\ CellAt(Coord(locals.points1[i])) = Some(locals.points1[i].z)

=============================================================================
